---- MODULE Spec2Model ----
\* Credit accounting, scan creation, payment settlement and the response
\* caches of the Gotham-Enterprise API routes, as a state machine over the
\* persistent store (User, VerificationResult, Payment collections), the
\* in-memory caches of the route modules and the in-flight requests. Every
\* operation a handler awaits is one atomic step, so the handlers of
\* concurrent requests interleave between their awaits.
EXTENDS Integers, Sequences, FiniteSets, TLC

\* ---------------------------------------------------------------- bounds
\* request slots that may be in flight at the same time
MaxConc == 2
\* requests started over a whole behaviour
MaxReq == 2
\* items in one bulk upload
MaxBatch == 3
\* largest credit balance a user record holds initially
MaxInitCredits == 2
\* read and delete requests (GET, DELETE) started over a whole behaviour
MaxReads == 2
\* advances of the clock over a whole behaviour
MaxTicks == 2
\* scan-creation requests started over a behaviour of the cache section
MaxCreates == 1
\* largest page number / record id a read request asks for
MaxParam == 1
\* items handed to one verifyMediaBulk call
MaxBulkItems == 5
\* scan records persisted over a behaviour of the scan-id section
MaxRecords == 3
\* largest initial balance, and requests started, in the trial section
MaxBalance == 6
MaxTrialReq == 3
\* calls of connectToDatabase and connection attempts over a behaviour of
\* the database section
MaxCalls == 4
MaxAttempts == 3
\* longest user id and record id, in characters, of the key-string check
MaxIdLen == 2
\* largest page number and page size of the key-string check
MaxPage == 11

\* ------------------------------------------------------------ constants
\* trial/route.ts: const TRIAL_CREDITS = 5
TRIAL_CREDITS == 5

\* clerk ids the identity provider may authenticate
ClerkIds == {"u1", "u2", "u3"}
\* clerk ids that have a User record ("u3" never synced one)
Registered == {"u1", "u2"}
\* payment references known to the payment provider
Refs == {"r1", "r2", "r3"}
NoId == "none"
\* who may call a route: an authenticated clerk id, or nobody (auth()
\* yields no userId)
Callers == ClerkIds \cup {NoId}

Reqs == 1..MaxConc

\* metadata the provider echoes for a reference: what the initialize route
\* sent (credits, clerkId). "r1" and "r3" were initialized by "u1"; "r2"
\* stands for a transaction whose metadata carries no clerkId.
Metadata(ref) ==
    IF ref = "r2" THEN [credits |-> 1, clerkId |-> NoId]
                  ELSE [credits |-> 2, clerkId |-> "u1"]

\* the user who paid the transaction of a reference: the caller of the
\* initialize route for "r1" and "r3"; "r2" was paid by "u1" too, in a
\* transaction of the same provider account that was not created by the
\* initialize route (which always sends the caller's clerkId)
Initiator(ref) == "u1"

VARIABLES
    credits,    \* User collection: clerkId -> credits field
    scans,      \* VerificationResult collection: userId -> number of records
    payments,   \* Payment collection: reference -> record
    req,        \* request slot -> the handler's position and locals
    nreq,       \* requests started so far
    credits0,   \* history: the balances of the initial state
    declined,   \* history: references a verify request saw the provider decline
    now,        \* Date.now(), in ms since the initial state
    cache,      \* the four response caches: cache name -> key -> entry
    deleted,    \* VerificationResult records removed by DELETE
    get,        \* the read (GET / DELETE) request in flight, its position and locals
    nget,       \* read requests started so far
    nticks,     \* clock advances so far
    rd,         \* a detector result and what the scan handler makes of it
    pool,       \* one verifyMediaBulk call: its items and its calls in flight
    vrs,        \* scan-id section: the persisted records (userId, scanId), in order
    applied,    \* history: reference -> times its credits were added to a balance
    granted,    \* history: clerkId -> credits the trial route added to the balance
    plan,       \* User collection: clerkId -> plan field
    del,        \* a DELETE request in flight beside the read request
    db          \* lib/db.ts: the cached connection, the attempts and the job queue

cacheVars == <<now, cache, deleted, get, nget, nticks>>
pureVars == <<rd, pool, vrs>>
auxVars == <<applied, granted, plan, del, db>>

vars == <<credits, scans, payments, req, nreq, credits0, declined, cacheVars, pureVars,
          auxVars>>

NoPayment == [exists |-> FALSE, processed |-> FALSE, credits |-> 0, clerkId |-> NoId]

Idle ==
    [pc |-> "idle", op |-> "none", userId |-> NoId,
     credits |-> 0,
     bulk |-> FALSE, n |-> 0, results |-> <<>>, i |-> 0, creditCost |-> 0,
     reference |-> NoId, existing |-> NoPayment,
     status |-> 0, ret |-> 0, pre |-> <<>>, fault |-> FALSE,
     success |-> FALSE, retry |-> FALSE, called |-> FALSE, listed |-> FALSE]

\* history fields of a slot: pre, the store as the request found it when it
\* started; fault, whether a store write of the request failed; success,
\* what the payment provider answered; retry, whether the provider had
\* declined the reference before; called, whether the handler called the
\* detector or the payment provider; listed, whether the owner's scan list
\* was read since the request was answered
Store == [credits |-> credits, scans |-> scans, payments |-> payments]

\* ------------------------------------------------------------ requests
\* A new request takes the lowest free slot.
FreeSlot(r) ==
    /\ req[r].pc = "idle"
    /\ \A q \in Reqs : q < r => req[q].pc # "idle"

\* a slot whose response was sent is released
Release(r) ==
    /\ req[r].pc = "done"
    /\ req' = [req EXCEPT ![r] = Idle]
    /\ UNCHANGED <<credits, scans, payments, nreq, credits0, declined, cacheVars, pureVars, auxVars>>

Respond(rec, code, val) ==
    [rec EXCEPT !.pc = "done", !.status = code, !.ret = val]

UnauthorizedNever(u) == FALSE

\* const { userId } = await auth(); if (!userId) return 401
Unauthorized(u) == u = NoId

\* ------------------------------------------------------ response caches
\* the module-level Maps scansCache, resultsCache, dashboardCache and
\* resultCache, each with its time to live in ms
Caches == {"scans", "results", "dashboard", "result"}

SCANS_CACHE_TTL == 2 * 60 * 1000
RESULTS_CACHE_TTL == 30 * 1000
DASHBOARD_CACHE_TTL == 30 * 1000
CACHE_TTL == 5 * 60 * 1000

TTL(c) ==
    CASE c = "scans" -> SCANS_CACHE_TTL
      [] c = "results" -> RESULTS_CACHE_TTL
      [] c = "dashboard" -> DASHBOARD_CACHE_TTL
      [] c = "result" -> CACHE_TTL

\* a cache key: the caller and the page (results, dashboard) or the record
\* id (result) of the request; the scan-list key has the caller alone
Params == 1..MaxParam
Keys == Callers \X (0..MaxParam)
KeyByParam(c, u, p) == <<NoId, p>>
Key(c, u, p) == IF c = "scans" THEN <<u, 0>> ELSE <<u, p>>

\* the key strings as the template literals build them, character by
\* character: a number is written in decimal digits, the parts are joined
\* by ":" and the page and limit carry the letters p and l
DecimalDigits == <<"0", "1", "2", "3", "4", "5", "6", "7", "8", "9">>
RECURSIVE Digits(_)
Digits(n) ==
    IF n < 10 THEN <<DecimalDigits[n + 1]>>
    ELSE Digits(n \div 10) \o <<DecimalDigits[(n % 10) + 1]>>
ResultCacheKey(userId, id) == userId \o <<":">> \o id
ListCacheKey(name, userId, page, limit) ==
    <<name, ":">> \o userId \o <<":", "p">> \o Digits(page) \o <<":", "l">> \o Digits(limit)

\* a response payload: the records of a list, the credits of the dashboard,
\* the total of the pagination block; owner is the userId of the query
\* filter the records and the credits were read with
NoData == [scans |-> {}, credits |-> 0, total |-> 0, owner |-> NoId]
NoEntry == [present |-> FALSE, data |-> NoData, timestamp |-> 0]

EvictNothing(c, key) == cache

\* Map.delete(key)
Evict(c, key) == [cache EXCEPT ![c][key] = NoEntry]

\* --------------------------------------------- POST /api/scans (create)
\* if (!user || user.credits <= 0)
InsufficientCredits(u) == u \notin Registered \/ credits[u] <= 0

ScansCacheEvictedFirst(u, rejected) == Evict("scans", Key("scans", u, 0))

\* scansCache.delete(`scans:${userId}`), which a rejected request does not
\* reach
ScansCacheOnCreate(u, rejected) ==
    IF rejected THEN cache ELSE Evict("scans", Key("scans", u, 0))

\* auth, body, User.findOne, the credits check, the drop of the caller's
\* scan-list cache entry, then the branch on body.files; n = 0 stands for
\* a single-file body
ScanStart(r, u, bulk, n) ==
    /\ FreeSlot(r)
    /\ nreq' = nreq + 1
    /\ LET rec == [Idle EXCEPT !.op = "scan", !.userId = u,
                               !.pre = Store]
       IN  IF Unauthorized(u)
           THEN /\ req' = [req EXCEPT ![r] = Respond(rec, 401, 0)]
                /\ cache' = cache
           ELSE /\ cache' = ScansCacheOnCreate(u, InsufficientCredits(u))
                /\ IF InsufficientCredits(u)
                   THEN req' = [req EXCEPT ![r] = Respond(rec, 402, 0)]
                   ELSE req' = [req EXCEPT ![r] =
                                  [rec EXCEPT !.pc = "verify", !.credits = credits[u],
                                              !.bulk = bulk, !.n = n]]
    /\ UNCHANGED <<credits, scans, payments, credits0, declined,
                   now, deleted, get, nget, nticks, pureVars, auxVars>>

\* verifyMediaBulk: one outcome per item, in input order; TRUE is a result,
\* FALSE a failed item (result missing)
BulkOutcomes(n) == [1..n -> BOOLEAN]

\* await verifyMediaBulk(bulkItems, 3)
ScanVerifyBulk(r) ==
    /\ req[r].pc = "verify" /\ req[r].bulk
    /\ \E res \in BulkOutcomes(req[r].n) :
           req' = [req EXCEPT ![r] = [@ EXCEPT !.pc = "save", !.results = res, !.i = 1,
                                               !.called = TRUE]]
    /\ UNCHANGED <<credits, scans, payments, nreq, credits0, declined, cacheVars, pureVars, auxVars>>

\* await verifyMedia(...): a result, no result (500), or a throw (500)
ScanVerifySingle(r, ok) ==
    /\ req[r].pc = "verify" /\ ~req[r].bulk
    /\ IF ok
       THEN req' = [req EXCEPT ![r] = [@ EXCEPT !.pc = "save", !.n = 1,
                                                !.results = <<TRUE>>, !.i = 1,
                                                !.called = TRUE]]
       ELSE req' = [req EXCEPT ![r] = Respond([@ EXCEPT !.called = TRUE], 500, 0)]
    /\ UNCHANGED <<credits, scans, payments, nreq, credits0, declined, cacheVars, pureVars, auxVars>>

\* index of the next item of the loop that has a result, 0 when none is left
NextResult(rec) ==
    LET S == {k \in rec.i..rec.n : rec.results[k]}
    IN  IF S = {} THEN 0 ELSE CHOOSE k \in S : \A j \in S : k <= j

\* await vr.save() / await result.save(): the record is inserted and the
\* loop goes on, or the store throws and the catch block answers 500
ScanSave(r, ok) ==
    /\ req[r].pc = "save"
    /\ NextResult(req[r]) # 0
    /\ LET k == NextResult(req[r])
       IN  IF ok
           THEN /\ scans' = [scans EXCEPT ![req[r].userId] = @ + 1]
                /\ req' = [req EXCEPT ![r] =
                             [@ EXCEPT !.i = k + 1, !.creditCost = @ + 1]]
           ELSE /\ scans' = scans
                /\ req' = [req EXCEPT ![r] = Respond([@ EXCEPT !.fault = TRUE], 500, 0)]
    /\ UNCHANGED <<credits, payments, nreq, credits0, declined, cacheVars, pureVars, auxVars>>

DebitAmountSubmitted(rec) == IF rec.bulk THEN rec.n ELSE 1

\* what the handler subtracts from the loaded user document
DebitAmount(rec) == IF rec.bulk THEN rec.creditCost ELSE 1

\* user.credits -= cost; await user.save(): the document's new value is
\* written to the record ($set of the modified path; nothing is written
\* when the value did not change), or the store throws and the catch block
\* answers 500
ScanDebit(r, ok) ==
    /\ req[r].pc = "save"
    /\ NextResult(req[r]) = 0
    /\ LET u == req[r].userId
           cost == DebitAmount(req[r])
       IN  IF ok
           THEN /\ credits' = [credits EXCEPT
                                  ![u] = IF cost = 0 THEN @ ELSE req[r].credits - cost]
                /\ req' = [req EXCEPT ![r] = Respond(@, 201, 0)]
           ELSE /\ credits' = credits
                /\ req' = [req EXCEPT ![r] = Respond([@ EXCEPT !.fault = TRUE], 500, 0)]
    /\ UNCHANGED <<scans, payments, nreq, credits0, declined, cacheVars, pureVars, auxVars>>

\* ------------------------------------------------ POST /api/users/trial
TrialStart(r, u) ==
    /\ FreeSlot(r)
    /\ nreq' = nreq + 1
    /\ LET rec == [Idle EXCEPT !.op = "trial", !.userId = u,
                               !.pre = Store]
       IN  IF Unauthorized(u)
           THEN req' = [req EXCEPT ![r] = Respond(rec, 401, 0)]
           ELSE IF u \notin Registered
           THEN req' = [req EXCEPT ![r] = Respond(rec, 404, 0)]
           ELSE req' = [req EXCEPT ![r] = [rec EXCEPT !.pc = "t_save", !.credits = credits[u]]]
    /\ UNCHANGED <<credits, scans, payments, credits0, declined, cacheVars, pureVars, auxVars>>

\* plan: { enum: ["trial", "starter", "growth", "enterprise"] }
Plans == {"trial", "starter", "growth", "enterprise"}

TrialCreditsAlways(c) == TRIAL_CREDITS

\* the balance the trial handler leaves in the loaded document (an unset
\* balance takes the branch of 0: !user.credits)
TrialCredits(c) == IF c = 0 \/ c < TRIAL_CREDITS THEN TRIAL_CREDITS ELSE c

\* user.plan = "trial"; await user.save(): the plan field is written, the
\* credits field when the handler changed it
TrialSave(r) ==
    /\ req[r].pc = "t_save"
    /\ LET u == req[r].userId
           c == TrialCredits(req[r].credits)
       IN  /\ credits' = [credits EXCEPT ![u] = IF c = req[r].credits THEN @ ELSE c]
           /\ plan' = [plan EXCEPT ![u] = "trial"]
           /\ granted' = [granted EXCEPT ![u] = @ + (c - req[r].credits)]
           /\ req' = [req EXCEPT ![r] = Respond(@, 200, c)]
    /\ UNCHANGED <<scans, payments, nreq, credits0, declined, cacheVars, pureVars,
                   applied, del, db>>

\* --------------------------------------------- POST paystack verify
ProviderDeclinedNever(success, ref) == FALSE

\* the provider's answer is not a successful payment, or its metadata
\* carries no credits
ProviderDeclined(success, ref) == ~success \/ Metadata(ref).credits <= 0

\* auth, reference, the provider's verify call and the checks on its answer
SettleStart(r, u, ref, success) ==
    /\ FreeSlot(r)
    /\ nreq' = nreq + 1
    /\ LET rec == [Idle EXCEPT !.op = "settle", !.userId = u,
                               !.reference = ref, !.pre = Store]
           called == [rec EXCEPT !.success = success, !.called = TRUE,
                                 !.retry = ref \in declined]
       IN  IF Unauthorized(u)
           THEN /\ req' = [req EXCEPT ![r] = Respond(rec, 401, 0)]
                /\ declined' = declined
           ELSE /\ declined' = IF success THEN declined ELSE declined \cup {ref}
                /\ IF ProviderDeclined(success, ref)
                   THEN req' = [req EXCEPT ![r] = Respond(called, 400, 0)]
                   ELSE req' = [req EXCEPT ![r] = [called EXCEPT !.pc = "s_find"]]
    /\ UNCHANGED <<credits, scans, payments, credits0, cacheVars, pureVars, auxVars>>

AlreadyProcessedNever(existing) == FALSE

\* if (existing && existing.processed)
AlreadyProcessed(existing) == existing.exists /\ existing.processed

\* existing = await Payment.findOne({reference}); the idempotency
\* short-circuit; the metadata ownership check
SettleFind(r) ==
    /\ req[r].pc = "s_find"
    /\ LET existing == payments[req[r].reference]
           metadataClerkId == Metadata(req[r].reference).clerkId
       IN  IF AlreadyProcessed(existing)
           THEN req' = [req EXCEPT ![r] = Respond([@ EXCEPT !.existing = existing],
                                                  200, existing.credits)]
           ELSE IF metadataClerkId # NoId /\ metadataClerkId # req[r].userId
           THEN req' = [req EXCEPT ![r] = Respond([@ EXCEPT !.existing = existing], 403, 0)]
           ELSE req' = [req EXCEPT ![r] = [@ EXCEPT !.pc = "s_user", !.existing = existing]]
    /\ UNCHANGED <<credits, scans, payments, nreq, credits0, declined, cacheVars, pureVars, auxVars>>

\* user = await User.findOne({clerkId: userId})
SettleFindUser(r) ==
    /\ req[r].pc = "s_user"
    /\ IF req[r].userId \notin Registered
       THEN req' = [req EXCEPT ![r] = Respond(@, 404, 0)]
       ELSE req' = [req EXCEPT ![r] = [@ EXCEPT !.pc = "s_credit",
                                                !.credits = credits[req[r].userId]]]
    /\ UNCHANGED <<credits, scans, payments, nreq, credits0, declined, cacheVars, pureVars, auxVars>>

\* user.credits = (user.credits || 0) + creditsToAdd; await user.save()
SettleCredit(r) ==
    /\ req[r].pc = "s_credit"
    /\ LET u == req[r].userId
           creditsToAdd == Metadata(req[r].reference).credits
       IN  /\ credits' = [credits EXCEPT ![u] = req[r].credits + creditsToAdd]
           /\ req' = [req EXCEPT ![r] = [@ EXCEPT !.pc = "s_record",
                                                  !.credits = @ + creditsToAdd]]
           /\ applied' = [applied EXCEPT ![req[r].reference] = @ + 1]
    /\ UNCHANGED <<scans, payments, nreq, credits0, declined, cacheVars, pureVars,
                   granted, plan, del, db>>

PaymentDocUnprocessed(rec) ==
    [exists |-> TRUE, processed |-> FALSE, credits |-> Metadata(rec.reference).credits,
     clerkId |-> rec.userId]

\* the Payment document the handler writes
PaymentDoc(rec) ==
    LET md == Metadata(rec.reference)
    IN  [exists |-> TRUE, processed |-> TRUE, credits |-> md.credits,
         clerkId |-> IF md.clerkId # NoId THEN md.clerkId ELSE rec.userId]

\* Payment collection: the reference is unique, so a create of a reference
\* that is already stored is refused
CreateRefused(ref) == payments[ref].exists

\* existing.save() or Payment.create(...); a refused or failed write throws
\* and the catch block answers 500; else the response carries user.credits
SettleRecord(r, ok) ==
    /\ req[r].pc = "s_record"
    /\ LET ref == req[r].reference
       IN  IF ok /\ (req[r].existing.exists \/ ~CreateRefused(ref))
           THEN /\ payments' = [payments EXCEPT ![ref] = PaymentDoc(req[r])]
                /\ req' = [req EXCEPT ![r] = Respond(@, 200, req[r].credits)]
           ELSE /\ payments' = payments
                /\ req' = [req EXCEPT ![r] = Respond([@ EXCEPT !.fault = ~ok], 500, 0)]
    /\ UNCHANGED <<credits, scans, nreq, credits0, declined, cacheVars, pureVars, auxVars>>

\* ------------------------------- POST paystack initialize, POST users
\* auth, body, User.findOne, the provider's initialize call; nothing is
\* stored
InitializeStart(r, u, ok) ==
    /\ FreeSlot(r)
    /\ nreq' = nreq + 1
    /\ LET rec == [Idle EXCEPT !.op = "initialize", !.userId = u, !.pre = Store]
       IN  IF Unauthorized(u)
           THEN req' = [req EXCEPT ![r] = Respond(rec, 401, 0)]
           ELSE IF u \notin Registered
           THEN req' = [req EXCEPT ![r] = Respond(rec, 404, 0)]
           ELSE req' = [req EXCEPT ![r] =
                          Respond([rec EXCEPT !.called = TRUE], IF ok THEN 200 ELSE 500, 0)]
    /\ UNCHANGED <<credits, scans, payments, credits0, declined, cacheVars, pureVars, auxVars>>

\* auth, body, User.findOneAndUpdate(..., {upsert: true}) of a caller who
\* has a user record: the profile fields it writes are not modelled, the
\* credits field is not written
SyncStart(r, u) ==
    /\ FreeSlot(r)
    /\ nreq' = nreq + 1
    /\ LET rec == [Idle EXCEPT !.op = "sync", !.userId = u, !.pre = Store]
       IN  IF Unauthorized(u)
           THEN req' = [req EXCEPT ![r] = Respond(rec, 401, 0)]
           ELSE req' = [req EXCEPT ![r] = Respond(rec, 200, credits[u])]
    /\ UNCHANGED <<credits, scans, payments, credits0, declined, cacheVars, pureVars, auxVars>>

\* ------------------------------------- GET routes and DELETE result/[id]
\* the read request in flight; hit: served from the cache; fault: a store
\* query of the request failed; after: the request is the first read of the
\* caller's scan list since a creating request of the caller was answered
GIdle ==
    [pc |-> "idle", op |-> "none", userId |-> NoId, p |-> 0,
     hit |-> FALSE, data |-> NoData, status |-> 0, fault |-> FALSE,
     after |-> FALSE]

GRespond(rec, code) == [rec EXCEPT !.pc = "done", !.status = code]

\* the VerificationResult records of a user; in the sections on the store
\* and the caches the k-th record a user persisted is identified by k
ResultsOf(u) ==
    IF u \in Registered THEN {k \in 1..scans[u] : <<u, k>> \notin deleted} ELSE {}

\* find({userId}).sort({createdAt: -1}).skip((page - 1) * limit).limit(limit)
PageOf(S, page, limit) ==
    {k \in S : LET rank == Cardinality({j \in S : j > k})
               IN  rank >= (page - 1) * limit /\ rank < page * limit}

\* limit(100) of the scan list; the default limit of results and dashboard
SCANS_LIMIT == 100
DEFAULT_LIMIT == 20

\* what each route computes from the store on a miss; a rejected query of
\* Promise.allSettled is replaced by the empty default
ScansPayload(u) ==
    [NoData EXCEPT !.scans = PageOf(ResultsOf(u), 1, SCANS_LIMIT), !.owner = u]

ResultsPayload(u, page, okFind, okCount) ==
    [scans |-> IF okFind THEN PageOf(ResultsOf(u), page, DEFAULT_LIMIT) ELSE {},
     credits |-> 0,
     total |-> IF okCount THEN Cardinality(ResultsOf(u)) ELSE 0,
     owner |-> u]

DashboardPayload(u, page, okUser, okFind) ==
    [scans |-> IF okFind THEN PageOf(ResultsOf(u), page, DEFAULT_LIMIT) ELSE {},
     credits |-> IF okUser /\ u \in Registered THEN credits[u] ELSE 0,
     total |-> 0,
     owner |-> u]

ResultPayload(u, id) == [NoData EXCEPT !.scans = {id}, !.owner = u]

FreshInclusive(e, c) == e.present /\ now - e.timestamp <= TTL(c)

\* cached && Date.now() - cached.timestamp < TTL
Fresh(e, c) == e.present /\ now - e.timestamp < TTL(c)

\* a creating request of u was answered and u's scan list not read since
AfterCreate(u) ==
    \E r \in Reqs : /\ req[r].pc = "done" /\ req[r].op = "scan" /\ req[r].userId = u
                    /\ req[r].creditCost >= 1 /\ ~req[r].listed

\* GET of cache c: auth, the cache key, the cache lookup; a hit answers
\* with the cached payload
GetStart(c, u, p) ==
    /\ get.pc = "idle"
    /\ nget < MaxReads
    /\ nget' = nget + 1
    /\ LET rec == [GIdle EXCEPT !.op = c, !.userId = u, !.p = p]
       IN  IF Unauthorized(u)
           THEN /\ get' = GRespond(rec, 401)
                /\ req' = req
           ELSE /\ LET e == cache[c][Key(c, u, p)]
                       mine == [rec EXCEPT !.after = c = "scans" /\ AfterCreate(u)]
                   IN  IF Fresh(e, c)
                       THEN get' = GRespond([mine EXCEPT !.hit = TRUE, !.data = e.data], 200)
                       ELSE get' = [mine EXCEPT !.pc = "query"]
                /\ req' = [r \in Reqs |->
                             IF /\ c = "scans" /\ req[r].pc = "done"
                                /\ req[r].op = "scan" /\ req[r].userId = u
                             THEN [req[r] EXCEPT !.listed = TRUE]
                             ELSE req[r]]
    /\ UNCHANGED <<credits, scans, payments, nreq, credits0, declined,
                   now, cache, deleted, nticks, pureVars, auxVars>>

\* the awaited store queries of a miss: the scan list and the single result
\* answer 500 when the query throws, the single result 404 when no record
\* matches; results and dashboard go on with the defaults
GetQuery(okA, okB) ==
    /\ get.pc = "query"
    /\ LET u == get.userId
           failed == [get EXCEPT !.fault = TRUE]
       IN  CASE get.op = "scans" ->
                  IF okA
                  THEN get' = [get EXCEPT !.pc = "set", !.data = ScansPayload(u)]
                  ELSE get' = GRespond(failed, 500)
             [] get.op = "results" ->
                  get' = [get EXCEPT !.pc = "set", !.fault = ~(okA /\ okB),
                                     !.data = ResultsPayload(u, get.p, okA, okB)]
             [] get.op = "dashboard" ->
                  get' = [get EXCEPT !.pc = "set", !.fault = ~(okA /\ okB),
                                     !.data = DashboardPayload(u, get.p, okA, okB)]
             [] get.op = "result" ->
                  IF ~okA THEN get' = GRespond(failed, 500)
                  ELSE IF get.p \notin ResultsOf(u) THEN get' = GRespond(get, 404)
                  ELSE get' = [get EXCEPT !.pc = "set", !.data = ResultPayload(u, get.p)]
    /\ UNCHANGED <<credits, scans, payments, req, nreq, credits0, declined,
                   now, cache, deleted, nget, nticks, pureVars, auxVars>>

\* cache.set(cacheKey, {data, timestamp: Date.now()}) and the response
GetSet ==
    /\ get.pc = "set"
    /\ cache' = [cache EXCEPT ![get.op][Key(get.op, get.userId, get.p)] =
                    [present |-> TRUE, data |-> get.data, timestamp |-> now]]
    /\ get' = GRespond(get, 200)
    /\ UNCHANGED <<credits, scans, payments, req, nreq, credits0, declined,
                   now, deleted, nget, nticks, pureVars, auxVars>>

\* GET users: auth, User.findOne, the user document
UserGet(u) ==
    /\ get.pc = "idle"
    /\ nget < MaxReads
    /\ nget' = nget + 1
    /\ LET rec == [GIdle EXCEPT !.op = "user", !.userId = u]
       IN  IF Unauthorized(u)
           THEN get' = GRespond(rec, 401)
           ELSE IF u \notin Registered
           THEN get' = GRespond(rec, 404)
           ELSE get' = GRespond([rec EXCEPT !.data = [NoData EXCEPT !.credits = credits[u],
                                                                 !.owner = u]], 200)
    /\ UNCHANGED <<credits, scans, payments, req, nreq, credits0, declined,
                   now, cache, deleted, nticks, pureVars, auxVars>>

\* DELETE result/[id]: auth
DelStart(u, p) ==
    /\ get.pc = "idle"
    /\ nget < MaxReads
    /\ nget' = nget + 1
    /\ LET rec == [GIdle EXCEPT !.op = "delete", !.userId = u, !.p = p]
       IN  IF Unauthorized(u)
           THEN get' = GRespond(rec, 401)
           ELSE get' = [rec EXCEPT !.pc = "remove"]
    /\ UNCHANGED <<credits, scans, payments, req, nreq, credits0, declined,
                   now, cache, deleted, nticks, pureVars, auxVars>>

\* await VerificationResult.findOneAndDelete({scanId: id, userId})
DelRemove(ok) ==
    /\ get.pc = "remove"
    /\ IF ~ok
       THEN /\ get' = GRespond([get EXCEPT !.fault = TRUE], 500)
            /\ deleted' = deleted
       ELSE IF get.p \notin ResultsOf(get.userId)
       THEN /\ get' = GRespond(get, 404)
            /\ deleted' = deleted
       ELSE /\ get' = [get EXCEPT !.pc = "evict"]
            /\ deleted' = deleted \cup {<<get.userId, get.p>>}
    /\ UNCHANGED <<credits, scans, payments, req, nreq, credits0, declined,
                   now, cache, nget, nticks, pureVars, auxVars>>

\* resultCache.delete(cacheKey) and the response
DelEvict ==
    /\ get.pc = "evict"
    /\ cache' = Evict("result", Key("result", get.userId, get.p))
    /\ get' = GRespond(get, 200)
    /\ UNCHANGED <<credits, scans, payments, req, nreq, credits0, declined,
                   now, deleted, nget, nticks, pureVars, auxVars>>

\* DELETE result/[id] of a request that runs beside the read request in
\* flight (the handler of DelStart, DelRemove and DelEvict, on its own
\* locals): auth
DeleteStart(u, p) ==
    /\ del.pc = "idle"
    /\ LET rec == [GIdle EXCEPT !.op = "delete", !.userId = u, !.p = p]
       IN  IF Unauthorized(u)
           THEN del' = GRespond(rec, 401)
           ELSE del' = [rec EXCEPT !.pc = "remove"]
    /\ UNCHANGED <<credits, scans, payments, req, nreq, credits0, declined,
                   cacheVars, pureVars, applied, granted, plan, db>>

\* await VerificationResult.findOneAndDelete({scanId: id, userId})
DeleteRemove(ok) ==
    /\ del.pc = "remove"
    /\ IF ~ok
       THEN /\ del' = GRespond([del EXCEPT !.fault = TRUE], 500)
            /\ deleted' = deleted
       ELSE IF del.p \notin ResultsOf(del.userId)
       THEN /\ del' = GRespond(del, 404)
            /\ deleted' = deleted
       ELSE /\ del' = [del EXCEPT !.pc = "evict"]
            /\ deleted' = deleted \cup {<<del.userId, del.p>>}
    /\ UNCHANGED <<credits, scans, payments, req, nreq, credits0, declined,
                   now, cache, get, nget, nticks, pureVars, applied, granted, plan, db>>

\* resultCache.delete(cacheKey) and the response
DeleteEvict ==
    /\ del.pc = "evict"
    /\ cache' = Evict("result", Key("result", del.userId, del.p))
    /\ del' = GRespond(del, 200)
    /\ UNCHANGED <<credits, scans, payments, req, nreq, credits0, declined,
                   now, deleted, get, nget, nticks, pureVars, applied, granted, plan, db>>

DeleteRelease ==
    /\ del.pc = "done"
    /\ del' = GIdle
    /\ UNCHANGED <<credits, scans, payments, req, nreq, credits0, declined,
                   cacheVars, pureVars, applied, granted, plan, db>>

GetRelease ==
    /\ get.pc = "done"
    /\ get' = GIdle
    /\ UNCHANGED <<credits, scans, payments, req, nreq, credits0, declined,
                   now, cache, deleted, nget, nticks, pureVars, auxVars>>

\* The clock is observed through the age of the cache entries alone, and an
\* age matters where it reaches a time to live: while an entry is cached the
\* clock advances by 1 ms, or to 1 ms before the expiry of an entry.
Cached == {ck \in Caches \X Keys : cache[ck[1]][ck[2]].present}

ExpirySteps ==
    {d \in {cache[ck[1]][ck[2]].timestamp + TTL(ck[1]) - 1 - now : ck \in Cached} \cup {1} :
        d > 0 /\ Cached # {}}

\* Date.now() advances by d ms
Tick(d) ==
    /\ nticks < MaxTicks
    /\ nticks' = nticks + 1
    /\ now' = now + d
    /\ UNCHANGED <<credits, scans, payments, req, nreq, credits0, declined,
                   cache, deleted, get, nget, pureVars, auxVars>>

CacheInit ==
    /\ now = 0
    /\ cache = [c \in Caches |-> [k \in Keys |-> NoEntry]]
    /\ deleted = {}
    /\ get = GIdle
    /\ nget = 0
    /\ nticks = 0
    /\ del = GIdle

\* ----------------------------------- detector result to persisted verdict
\* a score is a number of thousandths (value / ScoreScale), or no number
ScoreScale == 10 * 100
ProviderStatuses == {"AUTHENTIC", "MANIPULATED", "UNKNOWN", "none"}
Scores ==
    {[isNumber |-> TRUE, value |-> m] : m \in 0..ScoreScale}
        \cup {[isNumber |-> FALSE, value |-> 0]}

\* typeof result.score === "number" ? result.score : 0
OverallScore(score) == IF score.isNumber THEN score.value ELSE 0

MathRoundDown(x, scale) == x \div scale

\* Math.round(x / scale): the nearest integer, a half rounded up
MathRound(x, scale) == (2 * x + scale) \div (2 * scale)

\* Math.round(overallScore * 100)
ConfidenceScore(overallScore) == MathRound(overallScore * 100, ScoreScale)

\* the bulk loop's mapping
MappedStatusBulk(status, overallScore) ==
    IF status = "AUTHENTIC" THEN "AUTHENTIC"
    ELSE IF status = "MANIPULATED"
         THEN IF 2 * overallScore >= ScoreScale THEN "DEEPFAKE" ELSE "SUSPICIOUS"
         ELSE "SUSPICIOUS"

MappedStatusSingleStrict(status, overallScore) ==
    IF status = "AUTHENTIC" THEN "AUTHENTIC"
    ELSE IF status = "MANIPULATED"
         THEN IF 2 * overallScore > ScoreScale THEN "DEEPFAKE" ELSE "SUSPICIOUS"
         ELSE "SUSPICIOUS"

\* the single-file path's mapping
MappedStatusSingle(status, overallScore) ==
    IF status = "AUTHENTIC" THEN "AUTHENTIC"
    ELSE IF status = "MANIPULATED"
         THEN IF 2 * overallScore >= ScoreScale THEN "DEEPFAKE" ELSE "SUSPICIOUS"
         ELSE "SUSPICIOUS"

NoVerdict ==
    [pc |-> "idle", path |-> "none", status |-> "none",
     score |-> [isNumber |-> FALSE, value |-> 0],
     mappedStatus |-> "none", confidenceScore |-> 0]

\* the detector results a scan request may get, on either path
VerdictInputs ==
    {[NoVerdict EXCEPT !.pc = "in", !.path = path, !.status = st, !.score = sc] :
        path \in {"bulk", "single"}, st \in ProviderStatuses, sc \in Scores}

\* the fields of the record the bulk loop builds from a result
MapBulk ==
    /\ rd.pc = "in" /\ rd.path = "bulk"
    /\ rd' = [rd EXCEPT !.pc = "out",
                        !.confidenceScore = ConfidenceScore(OverallScore(rd.score)),
                        !.mappedStatus = MappedStatusBulk(rd.status, OverallScore(rd.score))]
    /\ UNCHANGED <<credits, scans, payments, req, nreq, credits0, declined,
                   cacheVars, pool, vrs, auxVars>>

\* the fields of the record the single-file path builds from rdResult
MapSingle ==
    /\ rd.pc = "in" /\ rd.path = "single"
    /\ rd' = [rd EXCEPT !.pc = "out",
                        !.confidenceScore = ConfidenceScore(OverallScore(rd.score)),
                        !.mappedStatus = MappedStatusSingle(rd.status, OverallScore(rd.score))]
    /\ UNCHANGED <<credits, scans, payments, req, nreq, credits0, declined,
                   cacheVars, pool, vrs, auxVars>>

\* ------------------------------------------- verifyMediaBulk(items, 3)
BulkConcurrencyUnbounded == MaxBulkItems

\* the concurrency the scan handler passes to verifyMediaBulk
BULK_CONCURRENCY == 3

NoPool == [pc |-> "idle", n |-> 0, next |-> 1, inflight |-> {}, finished |-> {}]

\* the call: n items are submitted
PoolCall(n) ==
    /\ pool.pc = "idle"
    /\ pool' = [NoPool EXCEPT !.pc = "running", !.n = n]
    /\ UNCHANGED <<credits, scans, payments, req, nreq, credits0, declined,
                   cacheVars, rd, vrs, auxVars>>

\* a free worker takes the next item and calls the detector
PoolDispatch ==
    /\ pool.pc = "running"
    /\ pool.next <= pool.n
    /\ Cardinality(pool.inflight) < BULK_CONCURRENCY
    /\ pool' = [pool EXCEPT !.inflight = @ \cup {pool.next}, !.next = @ + 1]
    /\ UNCHANGED <<credits, scans, payments, req, nreq, credits0, declined,
                   cacheVars, rd, vrs, auxVars>>

\* a detector call returns: a result, an error, or the client's timeout
PoolFinish(k) ==
    /\ pool.pc = "running"
    /\ k \in pool.inflight
    /\ pool' = [pool EXCEPT !.inflight = @ \ {k}, !.finished = @ \cup {k}]
    /\ UNCHANGED <<credits, scans, payments, req, nreq, credits0, declined,
                   cacheVars, rd, vrs, auxVars>>

\* every item has its outcome: the call resolves
PoolReturn ==
    /\ pool.pc = "running"
    /\ pool.finished = 1..pool.n
    /\ pool' = [pool EXCEPT !.pc = "returned"]
    /\ UNCHANGED <<credits, scans, payments, req, nreq, credits0, declined,
                   cacheVars, rd, vrs, auxVars>>

\* ------------------------------------------------------------- scan ids
\* file names of uploaded media ("" for none given), scanId values a
\* single-file body carries ("" for none), and values of Math.random()
FileNames == {"a.png", "b.png", ""}
BodyScanIds == {"s1", ""}
Randoms == {0, 1}

\* a scanId string: a given name, or `scan-${t}` / `scan-${t}-${rnd}`
GivenId(name) == [base |-> name, t |-> -1, rnd |-> -1]
StampedId(t, rnd) == [base |-> "scan", t |-> t, rnd |-> rnd]

\* media.fileName || `scan-${Date.now()}-${Math.random()}`
BulkScanId(fileName, t, rnd) ==
    IF fileName # "" THEN GivenId(fileName) ELSE StampedId(t, rnd)

\* body.scanId || `scan-${Date.now()}`
SingleScanId(bodyScanId, t) ==
    IF bodyScanId # "" THEN GivenId(bodyScanId) ELSE StampedId(t, -1)

\* the scanId index of the collection is created with unique: false
SCANID_INDEX_UNIQUE == FALSE

\* whether the collection takes a record with this owner and scanId
Accepted(u, id) ==
    ~SCANID_INDEX_UNIQUE \/ \A i \in 1..Len(vrs) : vrs[i].scanId # id

\* a verified item of a bulk request of a user with credits is saved (what
\* else the request does is the subject of the section on POST /api/scans)
IdSaveBulk(u, fileName, rnd) ==
    /\ ~InsufficientCredits(u)
    /\ Len(vrs) < MaxRecords
    /\ Accepted(u, BulkScanId(fileName, now, rnd))
    /\ vrs' = Append(vrs, [userId |-> u, scanId |-> BulkScanId(fileName, now, rnd)])
    /\ UNCHANGED <<credits, scans, payments, req, nreq, credits0, declined,
                   cacheVars, rd, pool, auxVars>>

\* the verified file of a single-file request of a user with credits is
\* saved
IdSaveSingle(u, bodyScanId) ==
    /\ ~InsufficientCredits(u)
    /\ Len(vrs) < MaxRecords
    /\ Accepted(u, SingleScanId(bodyScanId, now))
    /\ vrs' = Append(vrs, [userId |-> u, scanId |-> SingleScanId(bodyScanId, now)])
    /\ UNCHANGED <<credits, scans, payments, req, nreq, credits0, declined,
                   cacheVars, rd, pool, auxVars>>

\* --------------------------------------------- lib/db.ts connectToDatabase
\* cached {conn, promise} of the module and what the event loop holds of the
\* calls: promise is the attempt stored in cached.promise (0 for null),
\* attempt the state of each mongoose.connect promise, waiters the calls
\* whose await registered on a pending attempt, in order, jobs the queue of
\* jobs ready to run (a call about to enter the function, or the
\* continuation of an await whose promise is settled), first in first out,
\* caller the position of each call and the attempt it awaits.
Calls == 1..MaxCalls
Attempts == 1..MaxAttempts
NoCaller == [pc |-> "none", awaits |-> 0]
NoDb ==
    [uri |-> TRUE, conn |-> FALSE, promise |-> 0, nattempts |-> 0,
     attempt |-> [a \in Attempts |-> "none"],
     waiters |-> [a \in Attempts |-> <<>>],
     jobs |-> <<>>,
     caller |-> [i \in Calls |-> NoCaller]]

DbUnchanged ==
    UNCHANGED <<credits, scans, payments, req, nreq, credits0, declined,
                cacheVars, pureVars, applied, granted, plan, del>>

\* a handler reaches its await connectToDatabase(): the call is ready to run
\* (the calls are alike, so they arrive in the order of their numbers)
ConnectArrive(i) ==
    /\ db.caller[i].pc = "none"
    /\ \A j \in Calls : j < i => db.caller[j].pc # "none"
    /\ db' = [db EXCEPT !.caller[i].pc = "queued",
                         !.jobs = Append(@, <<"call", i>>)]
    /\ DbUnchanged

\* the function from its entry to its await: the MONGODB_URI check, the
\* cached connection, the stored promise or a new mongoose.connect, the await
ConnectCall ==
    /\ db.jobs # <<>>
    /\ Head(db.jobs)[1] = "call"
    /\ LET i == Head(db.jobs)[2]
           rest == Tail(db.jobs)
       IN  IF ~db.uri
           THEN db' = [db EXCEPT !.jobs = rest, !.caller[i].pc = "threw"]
           ELSE IF db.conn
           THEN db' = [db EXCEPT !.jobs = rest, !.caller[i].pc = "returned"]
           ELSE IF db.promise = 0
           THEN /\ db.nattempts < MaxAttempts
                /\ LET a == db.nattempts + 1
                   IN  db' = [db EXCEPT !.jobs = rest, !.nattempts = a, !.promise = a,
                                        !.attempt[a] = "pending",
                                        !.waiters[a] = Append(@, i),
                                        !.caller[i] = [pc |-> "awaiting", awaits |-> a]]
           ELSE LET a == db.promise
                IN  IF db.attempt[a] = "pending"
                    THEN db' = [db EXCEPT !.jobs = rest,
                                          !.waiters[a] = Append(@, i),
                                          !.caller[i] = [pc |-> "awaiting", awaits |-> a]]
                    ELSE db' = [db EXCEPT !.jobs = Append(rest, <<"resume", i>>),
                                          !.caller[i] = [pc |-> "awaiting", awaits |-> a]]
    /\ DbUnchanged

\* the promise of mongoose.connect settles: the continuations of the calls
\* awaiting it become ready in the order their awaits registered
RECURSIVE ResumeJobs(_)
ResumeJobs(ws) ==
    IF ws = <<>> THEN <<>> ELSE <<<<"resume", Head(ws)>>>> \o ResumeJobs(Tail(ws))
ConnectSettle(a, ok) ==
    /\ db.attempt[a] = "pending"
    /\ db' = [db EXCEPT !.attempt[a] = IF ok THEN "resolved" ELSE "rejected",
                         !.waiters[a] = <<>>,
                         !.jobs = @ \o ResumeJobs(db.waiters[a])]
    /\ DbUnchanged

\* after the await: cached.conn = the connection and return, or the catch:
\* cached.promise = null and rethrow
ConnectResume ==
    /\ db.jobs # <<>>
    /\ Head(db.jobs)[1] = "resume"
    /\ LET i == Head(db.jobs)[2]
           a == db.caller[i].awaits
       IN  IF db.attempt[a] = "resolved"
           THEN db' = [db EXCEPT !.jobs = Tail(@), !.conn = TRUE,
                                 !.caller[i].pc = "returned"]
           ELSE db' = [db EXCEPT !.jobs = Tail(@), !.promise = 0,
                                 !.caller[i].pc = "threw"]
    /\ DbUnchanged

\* ------------------------------------------------------- specification
\* a Payment left unprocessed by an earlier, interrupted settlement
Unprocessed(ref) ==
    [exists |-> TRUE, processed |-> FALSE, credits |-> 0, clerkId |-> Metadata(ref).clerkId]

LedgerInit ==
    /\ \E c \in 0..MaxInitCredits : credits = [u \in Registered |-> c]
    /\ credits0 = credits
    /\ scans = [u \in Registered |-> 0]
    /\ payments = [ref \in Refs |-> IF ref = "r3" THEN Unprocessed(ref) ELSE NoPayment]
    /\ req = [r \in Reqs |-> Idle]
    /\ nreq = 0
    /\ declined = {}
    /\ applied = [ref \in Refs |-> 0]
    /\ granted = [u \in Registered |-> 0]

\* the parts of the state a section leaves in their initial state
PureInit ==
    /\ rd = NoVerdict
    /\ pool = NoPool
    /\ vrs = <<>>

Init ==
    /\ LedgerInit
    /\ plan = [u \in Registered |-> "trial"]
    /\ CacheInit
    /\ PureInit
    /\ db = NoDb

Start(r) ==
    /\ nreq < MaxReq
    /\ \/ \E u \in Callers, n \in 1..MaxBatch : ScanStart(r, u, TRUE, n)
       \/ \E u \in Callers : ScanStart(r, u, FALSE, 0)
       \/ \E u \in Callers : TrialStart(r, u)
       \/ \E u \in Callers, ref \in Refs, success \in BOOLEAN :
              SettleStart(r, u, ref, success)

Step(r) ==
    \/ ScanVerifyBulk(r)
    \/ \E ok \in BOOLEAN : ScanVerifySingle(r, ok)
    \/ \E ok \in BOOLEAN : ScanSave(r, ok)
    \/ \E ok \in BOOLEAN : ScanDebit(r, ok)
    \/ TrialSave(r)
    \/ SettleFind(r)
    \/ SettleFindUser(r)
    \/ SettleCredit(r)
    \/ \E ok \in BOOLEAN : SettleRecord(r, ok)
    \/ Release(r)

Next == \E r \in Reqs : Start(r) \/ Step(r)

Spec == Init /\ [][Next]_vars

\* requests served one after the other: a request starts only when no
\* other is in flight
Quiet == \A q \in Reqs : req[q].pc = "idle"

NextSeq == \E r \in Reqs : (Quiet /\ Start(r)) \/ Step(r)

SpecSeq == Init /\ [][NextSeq]_vars

\* single-file scan creation and the read routes, interleaving, under an
\* advancing clock
CreateStart(r) ==
    /\ nreq < MaxCreates
    /\ \E u \in Callers : ScanStart(r, u, FALSE, 0)

CreateStep(r) ==
    \/ \E ok \in BOOLEAN : ScanVerifySingle(r, ok)
    \/ \E ok \in BOOLEAN : ScanSave(r, ok)
    \/ \E ok \in BOOLEAN : ScanDebit(r, ok)
    \/ Release(r)

ReadStart ==
    \/ \E u \in Callers : GetStart("scans", u, 0)
    \/ \E c \in Caches \ {"scans"}, u \in Callers, p \in Params : GetStart(c, u, p)
    \/ \E u \in Callers, p \in Params : DelStart(u, p)

ReadStep ==
    \/ \E okA, okB \in BOOLEAN : GetQuery(okA, okB)
    \/ GetSet
    \/ \E ok \in BOOLEAN : DelRemove(ok)
    \/ DelEvict
    \/ GetRelease

NextCache ==
    \/ \E r \in Reqs : CreateStart(r) \/ CreateStep(r)
    \/ ReadStart
    \/ ReadStep
    \/ \E d \in ExpirySteps : Tick(d)

SpecCache == Init /\ [][NextCache]_vars

\* single-file scan creation, GET result/[id] and DELETE result/[id],
\* interleaving
NextDel ==
    \/ \E r \in Reqs : CreateStart(r) \/ CreateStep(r)
    \/ \E u \in Callers, p \in Params : GetStart("result", u, p)
    \/ \E okA, okB \in BOOLEAN : GetQuery(okA, okB)
    \/ GetSet
    \/ GetRelease
    \/ \E u \in Callers, p \in Params : DeleteStart(u, p)
    \/ \E ok \in BOOLEAN : DeleteRemove(ok)
    \/ DeleteEvict
    \/ DeleteRelease

SpecDel == Init /\ [][NextDel]_vars

\* single-file scans and trial activations, served one after the other, of
\* users with any balance and plan; an answered request may stay in its slot
Settled == \A q \in Reqs : req[q].pc \in {"idle", "done"}

InitTrial ==
    /\ \E c \in 0..MaxBalance : credits = [u \in Registered |-> c]
    /\ credits0 = credits
    /\ scans = [u \in Registered |-> 0]
    /\ payments = [ref \in Refs |-> NoPayment]
    /\ req = [r \in Reqs |-> Idle]
    /\ nreq = 0
    /\ declined = {}
    /\ applied = [ref \in Refs |-> 0]
    /\ granted = [u \in Registered |-> 0]
    /\ \E pl \in Plans : plan = [u \in Registered |-> pl]
    /\ CacheInit
    /\ PureInit
    /\ db = NoDb

TrialSectionStart(r) ==
    /\ Settled
    /\ nreq < MaxTrialReq
    /\ \/ \E u \in Callers : TrialStart(r, u)
       \/ \E u \in Callers : ScanStart(r, u, FALSE, 0)

NextTrial ==
    \E r \in Reqs : \/ TrialSectionStart(r)
                    \/ TrialSave(r)
                    \/ \E ok \in BOOLEAN : ScanVerifySingle(r, ok)
                    \/ \E ok \in BOOLEAN : ScanSave(r, ok)
                    \/ \E ok \in BOOLEAN : ScanDebit(r, ok)
                    \/ Release(r)

SpecTrial == InitTrial /\ [][NextTrial]_vars

\* the database section: calls of connectToDatabase from concurrent handlers
\* on one event loop, with MONGODB_URI set or missing
InitDb ==
    /\ LedgerInit
    /\ plan = [u \in Registered |-> "trial"]
    /\ CacheInit
    /\ PureInit
    /\ \E uri \in BOOLEAN : db = [NoDb EXCEPT !.uri = uri]
NextDb ==
    \/ \E i \in Calls : ConnectArrive(i)
    \/ ConnectCall
    \/ \E a \in Attempts : \E ok \in BOOLEAN : ConnectSettle(a, ok)
    \/ ConnectResume
SpecDb == InitDb /\ [][NextDb]_vars

\* every route, requests served one after the other
QuietAll == Quiet /\ get.pc = "idle"

StartAll(r) ==
    \/ Start(r)
    \/ nreq < MaxReq /\ \E u \in Callers, ok \in BOOLEAN : InitializeStart(r, u, ok)
    \/ nreq < MaxReq /\ \E u \in Registered \cup {NoId} : SyncStart(r, u)

NextAll ==
    \/ QuietAll /\ ((\E r \in Reqs : StartAll(r)) \/ ReadStart \/ \E u \in Callers : UserGet(u))
    \/ \E r \in Reqs : Step(r)
    \/ ReadStep

SpecAll == Init /\ [][NextAll]_vars

\* a detector result and the verdict either path persists for it
InitVerdict ==
    /\ LedgerInit
    /\ plan = [u \in Registered |-> "trial"]
    /\ CacheInit
    /\ rd \in VerdictInputs
    /\ pool = NoPool
    /\ vrs = <<>>
    /\ db = NoDb

NextVerdict == MapBulk \/ MapSingle

SpecVerdict == InitVerdict /\ [][NextVerdict]_vars

\* one verifyMediaBulk call; a worker that can take an item does, and a
\* detector call returns (with a result, an error or the client's timeout)
NextPool ==
    \/ \E n \in 1..MaxBulkItems : PoolCall(n)
    \/ PoolDispatch
    \/ \E k \in 1..MaxBulkItems : PoolFinish(k)
    \/ PoolReturn

SpecPool ==
    /\ Init
    /\ [][NextPool]_vars
    /\ WF_vars(PoolDispatch)
    /\ WF_vars(\E k \in 1..MaxBulkItems : PoolFinish(k))
    /\ WF_vars(PoolReturn)

\* the scan ids of the records scan requests persist, under an advancing
\* clock
NextIds ==
    \/ \E u \in Registered, f \in FileNames, x \in Randoms : IdSaveBulk(u, f, x)
    \/ \E u \in Registered, b \in BodyScanIds : IdSaveSingle(u, b)
    \/ Tick(1)

SpecIds == Init /\ [][NextIds]_vars

\* --------------------------------------------------------------- claims
Done(r) == req[r].pc = "done"

RECURSIVE SetSum(_, _)
SetSum(f, S) ==
    IF S = {} THEN 0
    ELSE LET x == CHOOSE y \in S : TRUE IN f[x] + SetSum(f, S \ {x})

\* every request of the behaviour so far is in a slot, answered
AllAnswered == nreq = Cardinality(Reqs) /\ \A r \in Reqs : Done(r)

\* a bulk request past verifyMediaBulk, and its items without a result
PastVerify(rec) == rec.op = "scan" /\ rec.pc \in {"save", "done"} /\ rec.n > 0
NoResult(rec) == {k \in 1..rec.n : ~rec.results[k]}

\* store-level effect of the request in slot r since it started
Charged(r) == req[r].pre.credits[req[r].userId] - credits[req[r].userId]
Persisted(r) == scans[req[r].userId] - req[r].pre.scans[req[r].userId]

\* C1: in every reachable state every user's credit balance is >= 0.
C1_BalanceNonNegative == \A u \in Registered : credits[u] >= 0

\* C2: when all the requests of a behaviour are settlements of one
\* reference and the store failed none of their writes, the balances rise in
\* total by at most that reference's credit amount: the top-up is applied at
\* most once.
C2_TopUpAtMostOnce ==
    \A ref \in Refs :
        ( /\ AllAnswered
          /\ \A r \in Reqs : /\ req[r].op = "settle" /\ req[r].reference = ref
                             /\ ~req[r].fault )
        => SetSum([u \in Registered |-> credits[u] - credits0[u]], Registered)
             <= Metadata(ref).credits

\* a settlement request by the owner of a reference that was already
\* processed when the request started, answered after a successful provider
\* verification
Replay(r) ==
    /\ Done(r) /\ req[r].op = "settle" /\ req[r].status # 400
    /\ req[r].pre.payments[req[r].reference].processed
    /\ req[r].pre.payments[req[r].reference].clerkId = req[r].userId

\* C3: with requests served one after the other, a settlement of a
\* reference that an earlier request of the owner settled succeeds and
\* leaves every user record and every Payment record as it found them.
C3_ReplayMutatesNothing ==
    \A r \in Reqs :
        Replay(r) => /\ req[r].status = 200
                     /\ credits = req[r].pre.credits
                     /\ payments = req[r].pre.payments

\* C3 witness: the owner's second settlement of "r1" is answered; the first
\* one had raised the balance by the reference's credits.
C3_Witness ==
    \E r \in Reqs :
        /\ Replay(r) /\ req[r].reference = "r1" /\ req[r].status = 200
        /\ credits["u1"] = credits0["u1"] + Metadata("r1").credits

\* C4: the credits value a replayed settlement returns is the recorded
\* credit amount and equals the credits value the first, successful
\* settlement of that reference returned.
C4_ReplayReturnsSameCredits ==
    \A a, b \in Reqs :
        ( /\ Done(a) /\ req[a].op = "settle" /\ req[a].status = 200
          /\ ~AlreadyProcessed(req[a].existing)
          /\ Done(b) /\ req[b].op = "settle" /\ req[b].status = 200
          /\ AlreadyProcessed(req[b].existing)
          /\ req[a].reference = req[b].reference )
        => /\ req[b].ret = req[b].existing.credits
           /\ req[b].ret = req[a].ret

\* C5: a settlement request whose provider metadata names another owner
\* than the caller is answered 403, whatever Payment record exists.
C5_MismatchAlwaysRejected ==
    \A r \in Reqs :
        ( /\ Done(r) /\ req[r].op = "settle" /\ req[r].status \notin {400, 401}
          /\ Metadata(req[r].reference).clerkId \notin {NoId, req[r].userId} )
        => req[r].status = 403

\* C6: with requests served one after the other, a bulk request answered
\* 201 in which exactly one item got no result has persisted n-1 records
\* and lowered the user's balance by n-1.
C6_OneFailedItem ==
    \A r \in Reqs :
        ( /\ Done(r) /\ PastVerify(req[r]) /\ req[r].bulk /\ req[r].status = 201
          /\ Cardinality(NoResult(req[r])) = 1 )
        => /\ Persisted(r) = req[r].n - 1
           /\ Charged(r) = req[r].n - 1

\* C6 witness: a 3-item bulk request with one failed item is answered 201.
C6_Witness ==
    \E r \in Reqs :
        /\ Done(r) /\ PastVerify(req[r]) /\ req[r].bulk /\ req[r].status = 201
        /\ req[r].n = 3 /\ NoResult(req[r]) = {2}
        /\ Persisted(r) = 2 /\ Charged(r) = 2

\* C7: with requests served one after the other, a bulk request of more
\* items than the balance covers, all verified, never has more items
\* persisted or charged than the balance it started with.
C7_NeverBeyondBalance ==
    \A r \in Reqs :
        ( /\ PastVerify(req[r]) /\ req[r].bulk /\ NoResult(req[r]) = {}
          /\ req[r].n > req[r].pre.credits[req[r].userId] )
        => /\ Persisted(r) <= req[r].pre.credits[req[r].userId]
           /\ Charged(r) <= req[r].pre.credits[req[r].userId]

\* single-file scan requests of user u that were persisted and charged
Succeeded(u) == {r \in Reqs : req[r].userId = u /\ req[r].status = 201}

\* C8: when all K requests of a behaviour are single-file scans of one user
\* with B < K credits, none failing at the detector or the store, exactly B
\* of them succeed and the final balance is 0.
C8_ExactlyBSucceed ==
    \A u \in Registered :
        ( /\ AllAnswered
          /\ \A r \in Reqs : /\ req[r].op = "scan" /\ ~req[r].bulk /\ req[r].userId = u
                             /\ req[r].status \in {201, 402}
          /\ credits0[u] < Cardinality(Reqs) )
        => /\ Cardinality(Succeeded(u)) = credits0[u]
           /\ credits[u] = 0

\* what an answered request meant to add to the balance
Delta(rec) ==
    IF rec.op = "scan" THEN 0 - DebitAmount(rec)
    ELSE IF AlreadyProcessed(rec.existing) THEN 0 ELSE Metadata(rec.reference).credits

\* C9: when all the requests of a behaviour are scans and settlements of one
\* user and all completed, the final balance is the initial balance plus
\* the credits granted minus the credits debited.
C9_NoLostUpdate ==
    \A u \in Registered :
        ( /\ AllAnswered
          /\ \A r \in Reqs : /\ req[r].userId = u
                             /\ \/ req[r].op = "scan" /\ req[r].status = 201
                                \/ req[r].op = "settle" /\ req[r].status = 200 )
        => credits[u] = credits0[u] + SetSum([r \in Reqs |-> Delta(req[r])], Reqs)

\* C10: with requests served one after the other, an answered bulk request
\* has lowered the balance by the number of records it persisted.
C10_DebitEqualsPersisted ==
    \A r \in Reqs :
        (Done(r) /\ req[r].op = "scan" /\ req[r].bulk /\ req[r].userId \in Registered)
        => Charged(r) = Persisted(r)

\* the cache entry the read request in flight looks up, before and after a
\* step
Entry == cache[get.op][Key(get.op, get.userId, get.p)]
EntryAfter == cache'[get'.op][Key(get'.op, get'.userId, get'.p)]

\* the step in which an authenticated read of a cache looks its key up
Lookup == get.pc = "idle" /\ get'.pc # "idle" /\ get'.op \in Caches /\ get'.userId # NoId

\* the step in which a read that missed is answered
MissAnswered == get.pc \in {"query", "set"} /\ get'.pc = "done"

\* what a read of cache c by u with parameter p finds in the store
StoreValue(c, u, p) ==
    CASE c = "scans" -> [NoData EXCEPT !.scans = ResultsOf(u), !.owner = u]
      [] c = "results" -> [scans |-> PageOf(ResultsOf(u), p, DEFAULT_LIMIT), credits |-> 0,
                           total |-> Cardinality(ResultsOf(u)), owner |-> u]
      [] c = "dashboard" -> [scans |-> PageOf(ResultsOf(u), p, DEFAULT_LIMIT),
                             credits |-> IF u \in Registered THEN credits[u] ELSE 0,
                             total |-> 0, owner |-> u]
      [] c = "result" -> [NoData EXCEPT !.scans = {p} \cap ResultsOf(u), !.owner = u]

\* a lookup is a hit exactly when the key has an entry of age < TTL, and a
\* hit answers with the entry's payload and leaves the caches alone
HitIffFresh ==
    Lookup =>
        LET e == cache[get'.op][Key(get'.op, get'.userId, get'.p)]
        IN  /\ get'.hit <=> (e.present /\ now - e.timestamp < TTL(get'.op))
            /\ get'.hit => /\ get'.pc = "done" /\ get'.status = 200
                           /\ get'.data = e.data
                           /\ now - e.timestamp < TTL(get'.op)
                           /\ cache' = cache

\* a miss whose queries the store answered reads the value from the store
MissReadsStore ==
    (get.pc = "query" /\ get'.pc = "set" /\ ~get'.fault)
        => get'.data = StoreValue(get.op, get.userId, get.p)

C12_NextListReadSeesCreate ==
    (get.pc = "done" /\ get.op = "scans" /\ get.after /\ get.status = 200 /\ deleted = {})
        => get.data.scans # {}

\* the verdict the classification table gives for a provider status and a
\* score in thousandths
TableVerdict(status, value) ==
    CASE status = "AUTHENTIC" -> "AUTHENTIC"
      [] status = "MANIPULATED" /\ value >= 500 -> "DEEPFAKE"
      [] status = "MANIPULATED" /\ value < 500 -> "SUSPICIOUS"
      [] OTHER -> "SUSPICIOUS"

\* C13: on the single-file path and on the bulk path alike, the persisted
\* status is AUTHENTIC for provider status AUTHENTIC, DEEPFAKE for
\* MANIPULATED with overallScore >= 0.5, SUSPICIOUS for MANIPULATED with
\* overallScore < 0.5, and SUSPICIOUS for every other provider status.
C13_ClassificationTable ==
    rd.pc = "out" => rd.mappedStatus = TableVerdict(rd.status, OverallScore(rd.score))

\* C13 witness: the single-file path maps MANIPULATED with a score of
\* exactly 0.5 to DEEPFAKE.
C13_Witness ==
    /\ rd.pc = "out" /\ rd.path = "single" /\ rd.status = "MANIPULATED"
    /\ rd.score = [isNumber |-> TRUE, value |-> 500]
    /\ rd.mappedStatus = "DEEPFAKE"

FirstSettlement(r) ==
    /\ req[r].userId \in Registered
    /\ Metadata(req[r].reference).clerkId \in {NoId, req[r].userId}
    /\ ~req[r].pre.payments[req[r].reference].processed

\* the store after the top-up of request r was applied once to what it found
ToppedUpOnce(r) ==
    /\ credits = [req[r].pre.credits EXCEPT
                     ![req[r].userId] = @ + Metadata(req[r].reference).credits]
    /\ payments = [req[r].pre.payments EXCEPT ![req[r].reference] = PaymentDoc(req[r])]
    /\ payments[req[r].reference].processed
    /\ payments[req[r].reference].credits = Metadata(req[r].reference).credits

\* C15: with requests served one after the other, a settlement request for
\* which the provider reports no success is answered 400 and leaves every
\* balance and every Payment record as it found them; a later request for
\* the same reference which the provider reports as successful is answered
\* 200 and has applied the top-up once.
C15_DeclinedThenSettled ==
    \A r \in Reqs :
        (Done(r) /\ req[r].op = "settle" /\ req[r].userId # NoId) =>
            /\ ~req[r].success => /\ req[r].status = 400
                                  /\ credits = req[r].pre.credits
                                  /\ payments = req[r].pre.payments
            /\ (req[r].success /\ req[r].retry /\ FirstSettlement(r) /\ ~req[r].fault)
                  => req[r].status = 200 /\ ToppedUpOnce(r)

\* C15 witness: after a declined verification of "r1", u1's settlement of
\* "r1" is answered 200 and the balance is up by the reference's credits.
C15_Witness ==
    \E r \in Reqs :
        /\ Done(r) /\ req[r].op = "settle" /\ req[r].reference = "r1"
        /\ req[r].success /\ req[r].retry /\ req[r].status = 200
        /\ "r1" \in declined
        /\ credits["u1"] = credits0["u1"] + Metadata("r1").credits
        /\ payments["r1"].processed

\* C16: with requests served one after the other, the owner's successfully
\* verified settlement of a reference whose Payment record exists with
\* processed = FALSE is answered 200, has applied the top-up once and has
\* set processed on that record, the collection holding the same references
\* as before; a further request for the reference takes the
\* already-processed path.
C16_UnprocessedRecordSettled ==
    \A r \in Reqs :
        ( /\ Done(r) /\ req[r].op = "settle" /\ req[r].success /\ ~req[r].fault
          /\ FirstSettlement(r)
          /\ req[r].pre.payments[req[r].reference].exists )
        => /\ req[r].status = 200
           /\ ToppedUpOnce(r)
           /\ {ref \in Refs : payments[ref].exists}
                 = {ref \in Refs : req[r].pre.payments[ref].exists}
           /\ AlreadyProcessed(payments[req[r].reference])

\* C16 witness: u1's settlement of "r3", stored unprocessed, is answered.
C16_Witness ==
    \E r \in Reqs :
        /\ Done(r) /\ req[r].op = "settle" /\ req[r].reference = "r3"
        /\ req[r].userId = "u1" /\ req[r].status = 200
        /\ req[r].existing.exists /\ ~req[r].existing.processed
        /\ payments["r3"].processed
        /\ credits["u1"] = credits0["u1"] + Metadata("r3").credits

\* the items of the call handed to a worker so far
Dispatched == 1..(pool.next - 1)

\* C17: while a verifyMediaBulk call of the scan handler runs, at most 3
\* detector calls are in flight, an item is handed out only when fewer than
\* 3 of the items before it are unfinished, and once the call runs every
\* submitted item is eventually handed out.
C17_BoundedPool ==
    /\ [](Cardinality(pool.inflight) <= 3)
    /\ [](Cardinality(Dispatched) <= 3 + Cardinality(pool.finished))
    /\ [](pool.pc = "running" => <>(Dispatched = 1..pool.n))

\* C17 witness: a call of 5 items has 3 detector calls in flight and two
\* items waiting.
C17_Witness ==
    /\ pool.pc = "running" /\ pool.n = 5
    /\ Cardinality(pool.inflight) = 3 /\ pool.finished = {} /\ pool.next = 4

\* C18: no two persisted scan records of one owner have the same scanId.
C18_ScanIdUniquePerOwner ==
    \A i, j \in 1..Len(vrs) :
        (i # j /\ vrs[i].userId = vrs[j].userId) => vrs[i].scanId # vrs[j].scanId

\* C19: a scan-creation request of a caller who has no user record, or
\* whose balance is <= 0, is answered 402 in its first step, without a
\* detector call, leaving the balances, the scan records, the Payment
\* records and every cache entry as they were.
C19_RejectedBeforeAnyEffect ==
    [][ \A r \in Reqs :
          ( /\ req[r].pc = "idle" /\ req'[r].op = "scan" /\ req'[r].userId # NoId
            /\ (req'[r].userId \notin Registered \/ credits[req'[r].userId] <= 0) )
          => /\ req'[r].pc = "done" /\ req'[r].status = 402 /\ ~req'[r].called
             /\ UNCHANGED <<credits, scans, payments, cache, deleted>>
      ]_vars

\* C19 witness: a scan-creation request of a registered user without
\* credits is answered 402 while the user's scan list is cached.
C19_Witness ==
    \E r \in Reqs :
        /\ Done(r) /\ req[r].op = "scan" /\ req[r].status = 402
        /\ req[r].userId \in Registered
        /\ cache["scans"][Key("scans", req[r].userId, 0)].present

\* C20: a request of any route that carries no authenticated user id is
\* answered 401 in its first step, without a detector or provider call,
\* leaving the store and every cache entry as they were.
C20_UnauthenticatedChangesNothing ==
    [][ /\ \A r \in Reqs :
             (req[r].pc = "idle" /\ req'[r].op # "none" /\ req'[r].userId = NoId)
             => /\ req'[r].pc = "done" /\ req'[r].status = 401 /\ ~req'[r].called
                /\ UNCHANGED <<credits, scans, payments, declined, cache, deleted>>
        /\ (get.pc = "idle" /\ get'.op # "none" /\ get'.userId = NoId)
             => /\ get'.pc = "done" /\ get'.status = 401 /\ ~get'.hit
                /\ UNCHANGED <<credits, scans, payments, declined, cache, deleted>>
      ]_vars

\* C20 witness: an unauthenticated DELETE is answered 401 while the record
\* it names is stored and cached.
C20_Witness ==
    /\ get.pc = "done" /\ get.op = "delete" /\ get.userId = NoId /\ get.status = 401
    /\ get.p \in ResultsOf("u1")
    /\ cache["result"][Key("result", "u1", get.p)].present

\* C21: with requests served one after the other, also when a settlement
\* fails after the balance was incremented and before the Payment record
\* with processed = TRUE is persisted, and the reference is submitted again,
\* the credits of a reference are added to a balance at most once over the
\* whole history.
C21_FailedSettlementNotReapplied == \A ref \in Refs : applied[ref] <= 1

\* the step in which a request that changed the data of user u is answered:
\* a scan created and debited, credits added by a settlement or a trial
\* activation, a scan deleted
MutationAnswered(u) ==
    \/ \E r \in Reqs : /\ req[r].pc # "done" /\ req'[r].pc = "done"
                        /\ req'[r].userId = u /\ req'[r].status \in {200, 201}
                        /\ req'[r].op \in {"scan", "settle", "trial"}
                        /\ <<credits', scans'>> # <<req'[r].pre.credits, req'[r].pre.scans>>
    \/ get.pc = "evict" /\ get'.pc = "done" /\ get'.userId = u /\ get'.status = 200

\* after the step, cache c holds for u and p an entry a read would be served
\* from, with another payload than the store gives
ServedStale(c, u, p) ==
    LET e == cache'[c][Key(c, u, p)]
    IN  /\ e.present /\ now' - e.timestamp < TTL(c)
        /\ e.data # StoreValue(c, u, p)'

\* C22: when a mutation of a user's data has completed, the results-list
\* cache and the dashboard cache hold no entry of that user from which the
\* next read would be served a payload that differs from the store (the
\* entries were invalidated, so the next read is a miss).
C22_MutationInvalidatesLists ==
    [][ \A u \in Registered :
          MutationAnswered(u) =>
              \A c \in {"results", "dashboard"}, p \in Params : ~ServedStale(c, u, p)
      ]_vars

\* a DELETE of record p of user u has been answered 200 (the record is
\* gone and no DELETE of it is still about to drop its cache entry)
DeleteCompleted(u, p) ==
    /\ <<u, p>> \in deleted
    /\ ~(del.pc = "evict" /\ del.userId = u /\ del.p = p)
    /\ ~(get.pc = "evict" /\ get.userId = u /\ get.p = p)

ResultEntry(u, p) == cache["result"][Key("result", u, p)]

C24_SingleDebitIffPersisted ==
    \A r \in Reqs :
        (Done(r) /\ req[r].op = "scan" /\ ~req[r].bulk /\ req[r].userId \in Registered)
        => /\ Charged(r) \in {0, 1} /\ Persisted(r) \in {0, 1}
           /\ Charged(r) = 1 <=> Persisted(r) = 1
           /\ (req[r].status = 500 /\ ~req[r].fault)
                 => Charged(r) = 0 /\ Persisted(r) = 0

\* the step in which the trial activation in slot r saves the user
TrialSaved(r) == req[r].pc = "t_save" /\ req'[r].pc = "done"

\* C25: with requests served one after the other, a trial activation sets
\* the balance to 5 when it is below 5 and leaves it unchanged otherwise, so
\* it never lowers it, and sets the plan to trial; a second activation
\* right after the first leaves balance and plan as the first left them and
\* returns the same credits.
C25_TrialIdempotent ==
    [][ \A r \in Reqs :
          TrialSaved(r) =>
              LET u == req[r].userId
              IN  /\ credits'[u] = (IF credits[u] < 5 THEN 5 ELSE credits[u])
                  /\ credits'[u] >= credits[u]
                  /\ plan'[u] = "trial"
                  /\ req'[r].status = 200 /\ req'[r].ret = credits'[u]
                  /\ \A a \in Reqs \ {r} :
                        ( /\ nreq = 2 /\ Done(a) /\ req[a].op = "trial"
                          /\ req[a].userId = u /\ req[a].status = 200 )
                        => /\ credits' = credits /\ plan' = plan
                           /\ req'[r].ret = req[a].ret
      ]_vars

\* C25 witness: the second of two activations by u1, whose balance was 6 and
\* plan starter, is answered; balance 6, plan trial.
C25_Witness ==
    /\ nreq = 2 /\ credits0["u1"] = 6
    /\ \A r \in Reqs : /\ Done(r) /\ req[r].op = "trial" /\ req[r].userId = "u1"
                        /\ req[r].status = 200 /\ req[r].ret = 6
    /\ credits["u1"] = 6 /\ plan["u1"] = "trial"

\* C26: over any sequence of single-file scans and trial activations served
\* one after the other, the trial route adds at most 5 credits in total to
\* a user's balance.
C26_TrialGrantsAtMostFive == \A u \in Registered : granted[u] <= TRIAL_CREDITS

\* C27: with requests served one after the other, a settlement request
\* answered 200 has raised the caller's balance only when the caller is the user who
\* initiated the payment of the reference, also for a reference whose
\* provider metadata carries no owner id.
C27_CreditsOnlyToInitiator ==
    \A r \in Reqs :
        ( /\ Done(r) /\ req[r].op = "settle" /\ req[r].status = 200
          /\ req[r].userId \in Registered
          /\ credits[req[r].userId] > req[r].pre.credits[req[r].userId] )
        => req[r].userId = Initiator(req[r].reference)

\* C28: a caller is only ever answered with its own data. Every 200 answer of
\* a cached read carries a payload read with the caller's userId as filter,
\* every cache entry stored under a caller's key holds that caller's payload,
\* a DELETE removes only a record of its caller, and the keys of distinct
\* (user, page) or (user, id) pairs differ, in the model and as the strings
\* the routes build (Clerk user ids carry no ":").
ClerkIdChars == {"a", "b"}
IdChars == {"a", ":"}
Strings(chars) == UNION {[1..n -> chars] : n \in 1..MaxIdLen}
ResultKeysInjective ==
    \A u1 \in Strings(ClerkIdChars), u2 \in Strings(ClerkIdChars) :
        \A i1 \in Strings(IdChars), i2 \in Strings(IdChars) :
            ResultCacheKey(u1, i1) = ResultCacheKey(u2, i2) => u1 = u2 /\ i1 = i2
ListKeysInjective ==
    \A u1 \in Strings(ClerkIdChars), u2 \in Strings(ClerkIdChars) :
        \A p1 \in 1..MaxPage, p2 \in 1..MaxPage, l1 \in 1..MaxPage, l2 \in 1..MaxPage :
            \A name \in {"results", "dashboard"} :
                ListCacheKey(name, u1, p1, l1) = ListCacheKey(name, u2, p2, l2)
                    => u1 = u2 /\ p1 = p2 /\ l1 = l2
ModelKeysInjective ==
    \A c \in Caches : \A u1 \in ClerkIds, u2 \in ClerkIds : \A p1 \in Params, p2 \in Params :
        Key(c, u1, p1) = Key(c, u2, p2) => u1 = u2 /\ (c = "scans" \/ p1 = p2)
C28_OnlyOwnData ==
    [][/\ ResultKeysInjective /\ ListKeysInjective /\ ModelKeysInjective
       /\ (get'.pc = "done" /\ get'.status = 200 /\ get'.op \in Caches)
            => get'.data.owner = get'.userId
       /\ \A c \in Caches : \A u \in ClerkIds : \A p \in Params :
            cache'[c][Key(c, u, p)].present => cache'[c][Key(c, u, p)].data.owner = u
       /\ \A d \in deleted' \ deleted :
            get.op = "delete" /\ d[1] = get.userId /\ d[2] = get.p]_vars
\* u2 asks for record 1 of u1 while u1's copy of it is cached, and gets 404
C28_Witness ==
    /\ get.pc = "done" /\ get.op = "result" /\ get.userId = "u2" /\ get.p = 1
    /\ get.status = 404
    /\ ResultEntry("u1", 1).present
    /\ ResultEntry("u1", 1).data.scans = {1}

\* C29: a cache entry is written only by a read whose store queries all
\* succeeded: a step that stores an entry is never the step of a request
\* that had a query of its Promise.allSettled rejected.
C29_CacheOnlySuccessfulReads ==
    [][\A c \in Caches : \A k \in Keys :
          (cache'[c][k] # cache[c][k] /\ cache'[c][k].present) => ~get.fault]_vars

\* C30: connectToDatabase is single-flight. At most one connection attempt is
\* pending at a time; once cached.conn is set no call starts an attempt and
\* every call that runs returns; and a call never awaits an attempt that has
\* already failed: after a failure the next call starts a fresh attempt.
PendingAttempts == {a \in Attempts : db.attempt[a] = "pending"}
CallRuns(i) == db.caller[i].pc = "queued" /\ db'.caller[i].pc # "queued"
C30_SingleFlight ==
    [][/\ Cardinality(PendingAttempts') <= 1
       /\ db.conn => /\ db'.nattempts = db.nattempts
                     /\ \A i \in Calls : CallRuns(i) => db'.caller[i].pc = "returned"
       /\ \A i \in Calls :
            (CallRuns(i) /\ db'.caller[i].pc = "awaiting")
                => db'.attempt[db'.caller[i].awaits] = "pending"]_vars

====
